---- MODULE Spec2Model ----
(***************************************************************************)
(* A model of the bubbletea-stages stage runner: main.go (Spec) and its     *)
(* earlier version unnamed/part_000 (Spec0, at the end).                   *)
(*                                                                         *)
(* The program keeps a global list of stages and a global cursor           *)
(* stageIndex.  The Bubble Tea runtime owns an event loop which hands one  *)
(* message at a time to model.Update and renders model.View after each     *)
(* message; every tea.Cmd that Update returns (runStage, tea.Quit, the     *)
(* spinner tick) is run by the runtime on a goroutine of its own, and      *)
(* what the command returns comes back to the loop as a message.           *)
(*                                                                         *)
(* Go's nil is the string "nil"; an error is the string of its text.       *)
(***************************************************************************)
EXTENDS Integers, Sequences, FiniteSets

\* The longest stage list the model explores.
MaxStages == 3

\* Stage names by position (main.go names its stages One, Two, Three).
StageNames == <<"One", "Two", "Three", "Four", "Five">>

\* The error text the Action of the stage at a position returns when it fails.
ErrText == <<"boom1", "boom2", "boom3", "boom4", "boom5">>

\* The phases of the spinner animation (m.spinner.View()).
SpinnerFrames == <<"dot1", "dot2">>

\* What os.Create and the WriteString calls of writeCommandLogFile can do.
FileOutcomes == {"ok", "createFailed", "writeFailed"}

VARIABLES
    stages,       \* var stages []Stage
    stageIndex,   \* var stageIndex int (0-based, as in the code)
    commandLog,   \* var commandLog []string
    m,            \* the model value held by the event loop: Error, spinner
    msgs,         \* messages sent to the event loop and not yet handled
    pendingRun,   \* runStage commands handed to the runtime, not yet started
    inAction,     \* per stage, the runStage goroutines inside its Action
    quitBy,       \* the reasons for which Update has returned tea.Quit
    pc,           \* the process: "new", "running", "exited", or a panic
    view,         \* the last string model.View rendered
    logFile,      \* bubbletea-debug.log
    stdout,       \* what the program has printed with fmt.Println
    actionCalls,  \* per stage, how many times its Action was invoked
    logWrites     \* how many times writeCommandLogFile was invoked

vars == <<stages, stageIndex, commandLog, m, msgs, pendingRun, inAction,
          quitBy, pc, view, logFile, stdout, actionCalls, logWrites>>

\* The log file: whether it exists, whether every WriteString went through,
\* the lines of its "steps taken" section and the text of its error section.
NoFile == [exists |-> FALSE, written |-> FALSE, steps |-> <<>>, error |-> "nil"]

NoView == [header |-> "", rows |-> <<>>]

N == Len(stages)

RECURSIVE SumTo(_, _)
SumTo(f, n) == IF n = 0 THEN 0 ELSE f[n] + SumTo(f, n - 1)

\* The number of stage actions executing right now.
InFlight == SumTo(inAction, N)

(***************************************************************************)
(* Stage lists.  Action is what the stage's Action returns; IsCompleteFunc *)
(* is "nil" (no function), or what the function returns.  Reset is never   *)
(* called by the program and is left out.                                  *)
(***************************************************************************)
StageLists(n) ==
    { s \in [1..n -> [Name : {StageNames[i] : i \in 1..n},
                      Action : {"nil"} \cup {ErrText[i] : i \in 1..n},
                      Error : {"nil"},
                      IsComplete : {FALSE},
                      IsCompleteFunc : {"nil", "true", "false"}]] :
        \A i \in 1..n : /\ s[i].Name = StageNames[i]
                        /\ s[i].Action \in {"nil", ErrText[i]} }

(***************************************************************************)
(* Rendering.                                                              *)
(***************************************************************************)
\* A renderCheckbox that never looks at the stage's Error.
renderCheckboxNoError(s) == IF s.IsComplete THEN "complete" ELSE "pending"

renderCheckbox(s) ==
    IF s.Error # "nil" THEN "error"
    ELSE IF s.IsComplete THEN "complete"
    ELSE "pending"

renderWorkingStatus(mdl, s) ==
    [lead |-> IF ~s.IsComplete THEN SpinnerFrames[mdl.spinner] ELSE " ",
     name |-> s.Name]

\* View indexes stages[stageIndex]: out of range, it panics.
ViewPanics(stgs, idx) == idx < 0 \/ idx >= Len(stgs)

View(mdl, stgs, idx) ==
    [header |-> stgs[idx + 1].Name,
     rows |-> [i \in 1..Len(stgs) |->
                 [checkbox |-> renderCheckbox(stgs[i]),
                  working |-> renderWorkingStatus(mdl, stgs[i])]]]

\* The event loop renders the view after every message it hands to Update.
Render(mdl, stgs, idx) ==
    IF ViewPanics(stgs, idx)
    THEN /\ pc' = "panicIndex"
         /\ view' = view
    ELSE /\ pc' = pc
         /\ view' = View(mdl, stgs, idx)

(***************************************************************************)
(* The initial state: the globals as declared, the program not yet run.    *)
(***************************************************************************)
Init ==
    /\ \E n \in 0..MaxStages : stages \in StageLists(n)
    /\ stageIndex = 0
    /\ commandLog = <<>>
    /\ m = [Error |-> "nil", spinner |-> 1]
    /\ msgs = [startDeployMsg |-> 0, stageCompleteMsg |-> 0]
    /\ pendingRun = 0
    /\ inAction = [i \in 1..Len(stages) |-> 0]
    /\ quitBy = {}
    /\ pc = "new"
    /\ view = NoView
    /\ logFile = NoFile
    /\ stdout = <<>>
    /\ actionCalls = [i \in 1..Len(stages) |-> 0]
    /\ logWrites = 0

\* main: tea.NewProgram(initialModel()).Run() calls Init, whose batch sends
\* the first tick and startDeployMsg, and renders the first view.
Run ==
    /\ pc = "new"
    /\ msgs' = [msgs EXCEPT !.startDeployMsg = 1]
    /\ IF ViewPanics(stages, stageIndex)
       THEN pc' = "panicIndex" /\ view' = view
       ELSE pc' = "running" /\ view' = View(m, stages, stageIndex)
    /\ UNCHANGED <<stages, stageIndex, commandLog, m, pendingRun, inAction,
                   quitBy, logFile, stdout, actionCalls, logWrites>>

(***************************************************************************)
(* runStage, the command: it runs on a goroutine of its own, beside the    *)
(* event loop.                                                             *)
(***************************************************************************)
\* A runStage that ignores the completion predicate's answer.
SkipsActionNever(s) == FALSE

\* if !stages[stageIndex].IsCompleteFunc(): the stage's action is skipped
\* when its completion predicate reports true.
SkipsAction(s) == s.IsCompleteFunc = "true"

\* logCommand appends one line to the audit log.
logCommand(log, s) == Append(log, s)

\* runStage up to the call of Action: the index and the predicate.  The
\* Action is the stage's own code: it may record what it does with
\* logCommand (the actions main.go declares do not).
RunStage ==
    /\ pc = "running"
    /\ pendingRun > 0
    /\ pendingRun' = pendingRun - 1
    /\ IF stageIndex >= N
       THEN /\ pc' = "panicIndex"
            /\ UNCHANGED <<msgs, inAction, actionCalls, commandLog>>
       ELSE IF stages[stageIndex + 1].IsCompleteFunc = "nil"
       THEN /\ pc' = "panicNilFunc"
            /\ UNCHANGED <<msgs, inAction, actionCalls, commandLog>>
       ELSE IF SkipsAction(stages[stageIndex + 1])
       THEN /\ msgs' = [msgs EXCEPT !.stageCompleteMsg = @ + 1]
            /\ UNCHANGED <<pc, inAction, actionCalls, commandLog>>
       ELSE /\ inAction' = [inAction EXCEPT ![stageIndex + 1] = @ + 1]
            /\ actionCalls' = [actionCalls EXCEPT ![stageIndex + 1] = @ + 1]
            /\ \E logs \in BOOLEAN :
                 commandLog' = IF logs
                               THEN logCommand(commandLog,
                                               stages[stageIndex + 1].Name)
                               ELSE commandLog
            /\ UNCHANGED <<pc, msgs>>
    /\ UNCHANGED <<stages, stageIndex, m, quitBy, view, logFile, stdout,
                   logWrites>>

\* The stage's Action returns: its result is stored on the stage record and
\* runStage returns stageCompleteMsg.
ActionReturn ==
    /\ pc = "running"
    /\ \E i \in 1..N :
        /\ inAction[i] > 0
        /\ inAction' = [inAction EXCEPT ![i] = @ - 1]
        /\ stages' = [stages EXCEPT ![i].Error = stages[i].Action]
    /\ msgs' = [msgs EXCEPT !.stageCompleteMsg = @ + 1]
    /\ UNCHANGED <<stageIndex, commandLog, m, pendingRun, quitBy, pc, view,
                   logFile, stdout, actionCalls, logWrites>>

(***************************************************************************)
(* writeCommandLogFile.                                                    *)
(***************************************************************************)
\* A writeCommandLogFile that writes the first stage's error, whichever
\* stage failed.
writeCommandLogFileFirst(outcome) ==
    /\ logWrites' = logWrites + 1
    /\ IF outcome = "createFailed"
       THEN /\ stdout' = Append(stdout, "create error")
            /\ logFile' = logFile
       ELSE IF outcome = "writeFailed"
       THEN /\ stdout' = stdout
            /\ logFile' = [exists |-> TRUE, written |-> FALSE,
                           steps |-> <<>>, error |-> "nil"]
       ELSE /\ stdout' = stdout
            /\ logFile' = [exists |-> TRUE, written |-> TRUE,
                           steps |-> commandLog,
                           error |-> stages[1].Error]

\* os.Create failing is printed and ends the function; the results of the
\* WriteString calls are dropped, so a failing write leaves a file without
\* its contents and prints nothing.
writeCommandLogFile(outcome) ==
    /\ logWrites' = logWrites + 1
    /\ IF outcome = "createFailed"
       THEN /\ stdout' = Append(stdout, "create error")
            /\ logFile' = logFile
       ELSE IF outcome = "writeFailed"
       THEN /\ stdout' = stdout
            /\ logFile' = [exists |-> TRUE, written |-> FALSE,
                           steps |-> <<>>, error |-> "nil"]
       ELSE /\ stdout' = stdout
            /\ logFile' = [exists |-> TRUE, written |-> TRUE,
                           steps |-> commandLog,
                           error |-> stages[stageIndex + 1].Error]

(***************************************************************************)
(* model.Update, one action per message type.  No command of the program   *)
(* returns an errMsg, so that case of Update is never entered.             *)
(***************************************************************************)
\* An Update that never sees the stage's error.
HasErrorNever(s) == FALSE

\* An Update that takes every completion for a failure.
HasErrorAlways(s) == TRUE

\* if stages[stageIndex].Error != nil
HasError(s) == s.Error # "nil"

\* A last-stage test that is off by one.
IsLastStageOffByOne(idx, n) == idx + 1 > n

\* if stageIndex+1 >= len(stages)
IsLastStage(idx, n) == idx + 1 >= n

\* A cursor that steps over a stage.
NextIndexSkip(idx) == idx + 2

\* A cursor that stays where it is, so that the stage is run again.
NextIndexStay(idx) == idx

\* stageIndex++
NextIndex(idx) == idx + 1

\* case stageCompleteMsg
UpdateStageComplete ==
    /\ pc = "running"
    /\ msgs.stageCompleteMsg > 0
    /\ msgs' = [msgs EXCEPT !.stageCompleteMsg = @ - 1]
    /\ IF HasError(stages[stageIndex + 1])
       THEN /\ m' = [m EXCEPT !.Error = stages[stageIndex + 1].Error]
            /\ \E outcome \in FileOutcomes : writeCommandLogFile(outcome)
            /\ quitBy' = quitBy \cup {"failed"}
            /\ UNCHANGED <<stages, stageIndex, pendingRun>>
       ELSE /\ stages' = [stages EXCEPT ![stageIndex + 1].IsComplete = TRUE]
            /\ IF IsLastStage(stageIndex, N)
               THEN /\ quitBy' = quitBy \cup {"done"}
                    /\ UNCHANGED <<stageIndex, pendingRun>>
               ELSE /\ stageIndex' = NextIndex(stageIndex)
                    /\ pendingRun' = pendingRun + 1
                    /\ UNCHANGED quitBy
            /\ UNCHANGED <<m, logFile, stdout, logWrites>>
    /\ Render(m', stages', stageIndex')
    /\ UNCHANGED <<commandLog, inAction, actionCalls>>

\* A Ctrl-C that is treated as a failure: it writes the failure log.
UpdateKeyCtrlCLogs ==
    /\ pc = "running"
    /\ quitBy' = quitBy \cup {"ctrlc"}
    /\ writeCommandLogFile("ok")
    /\ Render(m, stages, stageIndex)
    /\ UNCHANGED <<stages, stageIndex, commandLog, m, msgs, pendingRun,
                   inAction, actionCalls>>

\* case tea.KeyMsg with msg.Type == tea.KeyCtrlC
UpdateKeyCtrlC ==
    /\ pc = "running"
    /\ quitBy' = quitBy \cup {"ctrlc"}
    /\ Render(m, stages, stageIndex)
    /\ UNCHANGED <<stages, stageIndex, commandLog, m, msgs, pendingRun,
                   inAction, logFile, stdout, actionCalls, logWrites>>

\* A key handler without the test for Ctrl-C: every key quits.
UpdateKeyOtherQuits ==
    /\ pc = "running"
    /\ quitBy' = quitBy \cup {"ctrlc"}
    /\ Render(m, stages, stageIndex)
    /\ UNCHANGED <<stages, stageIndex, commandLog, m, msgs, pendingRun,
                   inAction, logFile, stdout, actionCalls, logWrites>>

\* case tea.KeyMsg with any other key: it falls through to the spinner,
\* which ignores it.
UpdateKeyOther ==
    /\ pc = "running"
    /\ Render(m, stages, stageIndex)
    /\ UNCHANGED <<stages, stageIndex, commandLog, m, msgs, pendingRun,
                   inAction, quitBy, logFile, stdout, actionCalls, logWrites>>

\* A start handler that returns no command: the first stage is never run.
UpdateStartDeployIdle ==
    /\ pc = "running"
    /\ msgs.startDeployMsg > 0
    /\ msgs' = [msgs EXCEPT !.startDeployMsg = @ - 1]
    /\ Render(m, stages, stageIndex)
    /\ UNCHANGED <<stages, stageIndex, commandLog, m, pendingRun, inAction,
                   quitBy, logFile, stdout, actionCalls, logWrites>>

\* case startDeployMsg
UpdateStartDeploy ==
    /\ pc = "running"
    /\ msgs.startDeployMsg > 0
    /\ msgs' = [msgs EXCEPT !.startDeployMsg = @ - 1]
    /\ pendingRun' = pendingRun + 1
    /\ Render(m, stages, stageIndex)
    /\ UNCHANGED <<stages, stageIndex, commandLog, m, inAction, quitBy,
                   logFile, stdout, actionCalls, logWrites>>

\* A tick that is taken for the start signal: it also returns runStage.
UpdateTickRuns ==
    /\ pc = "running"
    /\ m' = [m EXCEPT !.spinner = (@ % Len(SpinnerFrames)) + 1]
    /\ pendingRun' = pendingRun + 1
    /\ Render(m', stages, stageIndex)
    /\ UNCHANGED <<stages, stageIndex, commandLog, msgs, inAction, quitBy,
                   logFile, stdout, actionCalls, logWrites>>

\* The spinner's tick: m.spinner.Update advances the phase and asks for the
\* next tick.
UpdateTick ==
    /\ pc = "running"
    /\ m' = [m EXCEPT !.spinner = (@ % Len(SpinnerFrames)) + 1]
    /\ Render(m', stages, stageIndex)
    /\ UNCHANGED <<stages, stageIndex, commandLog, msgs, pendingRun, inAction,
                   quitBy, logFile, stdout, actionCalls, logWrites>>

\* The message of a tea.Quit command reaches the event loop: Run returns and
\* main ends the process, whatever goroutines are still running.
Exit ==
    /\ pc = "running"
    /\ quitBy # {}
    /\ pc' = "exited"
    /\ UNCHANGED <<stages, stageIndex, commandLog, m, msgs, pendingRun,
                   inAction, quitBy, view, logFile, stdout, actionCalls,
                   logWrites>>

Next ==
    \/ Run
    \/ RunStage
    \/ ActionReturn
    \/ UpdateStageComplete
    \/ UpdateKeyCtrlC
    \/ UpdateKeyOther
    \/ UpdateStartDeploy
    \/ UpdateTick
    \/ Exit

Spec == Init /\ [][Next]_vars

(***************************************************************************)
(* The engine's terminal states, read off what Update has returned.        *)
(***************************************************************************)
\* Update returned tea.Quit because the current stage carried an error.
Failed == "failed" \in quitBy

\* Update returned tea.Quit because the last stage completed.
Succeeded == "done" \in quitBy

\* Update returned tea.Quit because of Ctrl-C.
Interrupted == "ctrlc" \in quitBy

\* The step is Update handling a stageCompleteMsg.
HandlesStageComplete == msgs'.stageCompleteMsg < msgs.stageCompleteMsg

\* The step is Update handling a message, of whatever type.
UpdateHandles ==
    \/ UpdateStageComplete
    \/ UpdateKeyCtrlC
    \/ UpdateKeyOther
    \/ UpdateStartDeploy
    \/ UpdateTick

\* A stage's error has been stored and its stageCompleteMsg handled.
ErrorHandled ==
    /\ msgs.stageCompleteMsg = 0
    /\ \E i \in 1..N : stages[i].Error # "nil"

(***************************************************************************)
(* C1                                                                      *)
(***************************************************************************)
\* C1: once the stageCompleteMsg of a stage whose action returned an error
\* has been handled, the run is Failed; and in Failed the stage at
\* stageIndex is the one whose action returned the error, every earlier
\* stage is complete and every later stage is untouched.
C1_FailedAtStage ==
    /\ ErrorHandled => Failed
    /\ Failed =>
        /\ stageIndex < N
        /\ stages[stageIndex + 1].Error # "nil"
        /\ stages[stageIndex + 1].Error = stages[stageIndex + 1].Action
        /\ actionCalls[stageIndex + 1] = 1
        /\ m.Error = stages[stageIndex + 1].Error
        /\ \A j \in 1..stageIndex : stages[j].IsComplete
        /\ \A j \in (stageIndex + 2)..N :
             /\ ~stages[j].IsComplete
             /\ stages[j].Error = "nil"
             /\ actionCalls[j] = 0

\* The middle stage of three has failed.
C1_Witness ==
    /\ Failed
    /\ N = 3
    /\ stageIndex = 1
    /\ ~Interrupted

(***************************************************************************)
(* C2                                                                      *)
(***************************************************************************)
AllActionsSucceed == \A i \in 1..N : stages[i].Action = "nil"

\* C2: a run over a list of any length N >= 0 whose actions all succeed,
\* left alone by the user, ends Succeeded with stageIndex = N-1, every stage
\* complete and no stage carrying an error.
C2_AllSucceedEndsSucceeded ==
    (/\ AllActionsSucceed
     /\ ~Interrupted
     /\ pc \in {"exited", "panicIndex", "panicNilFunc"})
    => /\ pc = "exited"
       /\ Succeeded
       /\ m.Error = "nil"
       /\ stageIndex = N - 1
       /\ \A i \in 1..N : stages[i].IsComplete /\ stages[i].Error = "nil"

(***************************************************************************)
(* C3                                                                      *)
(***************************************************************************)
\* C3: at most one stage action is in flight, and a stage's action has been
\* started only if every earlier stage is resolved, without error, and its
\* stageCompleteMsg handled (which is what sets IsComplete).
C3_StrictOrder ==
    /\ InFlight + pendingRun + msgs.stageCompleteMsg <= 1
    /\ \A i \in 1..N :
         (actionCalls[i] > 0 \/ inAction[i] > 0) =>
             /\ i <= stageIndex + 1
             /\ \A j \in 1..(i - 1) :
                  /\ stages[j].IsComplete
                  /\ stages[j].Error = "nil"
                  /\ inAction[j] = 0

\* The third stage's action is running after the first two ran theirs.
C3_Witness ==
    /\ N = 3
    /\ inAction[3] = 1
    /\ actionCalls[1] = 1
    /\ actionCalls[2] = 1

(***************************************************************************)
(* C4                                                                      *)
(***************************************************************************)
C4_NeverInvoked ==
    \A i \in 1..N :
        stages[i].IsCompleteFunc = "true" =>
            /\ actionCalls[i] = 0
            /\ inAction[i] = 0
            /\ stages[i].Error = "nil"
            /\ (i <= stageIndex => stages[i].IsComplete)

C4_Advances ==
    (/\ HandlesStageComplete
     /\ stages[stageIndex + 1].IsCompleteFunc = "true")
    => /\ stages'[stageIndex + 1].IsComplete
       /\ IF stageIndex + 1 = N
          THEN Succeeded' /\ stageIndex' = stageIndex
          ELSE /\ stageIndex' = stageIndex + 1
               /\ pendingRun' = pendingRun + 1
               /\ quitBy' = quitBy

\* C4: the Action of a stage whose completion predicate returns true is
\* never invoked; handling its stageCompleteMsg marks it complete and either
\* moves to the next stage and starts it, or, after the last stage, quits.
C4_SkippedStage == [](C4_NeverInvoked) /\ [][C4_Advances]_vars

\* A skipped first stage is complete and the run has moved on to the second.
C4_Witness ==
    /\ N >= 2
    /\ stages[1].IsCompleteFunc = "true"
    /\ stages[1].IsComplete
    /\ stageIndex = 1
    /\ actionCalls[1] = 0

(***************************************************************************)
(* C5                                                                      *)
(***************************************************************************)
\* C5: writeCommandLogFile has been invoked once if the run is Failed and
\* not at all otherwise; a run is Failed exactly when a stage's error has
\* been handled, a Succeeded run has written nothing, and a run that ended
\* without an interrupt has written once if a stage's action returned an
\* error and not at all if none did.
C5_OneLogWritePerFailure ==
    /\ logWrites = IF Failed THEN 1 ELSE 0
    /\ Failed <=> ErrorHandled
    /\ Succeeded => logWrites = 0
    /\ logFile.exists => logWrites = 1
    /\ (pc = "exited" /\ ~Interrupted) =>
         logWrites = IF \E i \in 1..N : stages[i].Error # "nil" THEN 1 ELSE 0

\* A failed run has exited with its one log write.
C5_Witness ==
    /\ pc = "exited"
    /\ Failed
    /\ logWrites = 1
    /\ logFile.exists
    /\ stageIndex = 1

(***************************************************************************)
(* C6                                                                      *)
(***************************************************************************)
C6_QuitsAtOnce == (Interrupted /\ pc = "running") => ENABLED Exit

C6_NoLog ==
    (~Interrupted /\ Interrupted') =>
        /\ logWrites' = logWrites
        /\ logFile' = logFile
        /\ stdout' = stdout
        /\ stages' = stages
        /\ inAction' = inAction
        /\ m' = m

\* C6: handling Ctrl-C signals termination at once, also while a stage
\* action is in flight (the process can exit without the action returning),
\* and writes no failure log.
C6_Interrupt == [](C6_QuitsAtOnce) /\ [][C6_NoLog]_vars

\* The process has exited on Ctrl-C with a stage action still in flight.
C6_Witness ==
    /\ pc = "exited"
    /\ quitBy = {"ctrlc"}
    /\ InFlight = 1
    /\ logWrites = 0

(***************************************************************************)
(* C7                                                                      *)
(***************************************************************************)
\* C7: a stage without a completion predicate does not crash the run, and
\* once the run is past it its Action has been invoked.
C7_NilPredicateRuns ==
    /\ pc # "panicNilFunc"
    /\ \A i \in 1..N :
         (stages[i].IsCompleteFunc = "nil" /\ i <= stageIndex)
             => actionCalls[i] = 1

(***************************************************************************)
(* C8                                                                      *)
(***************************************************************************)
C8_AtMostOnce ==
    /\ \A i \in 1..N : actionCalls[i] <= 1
    /\ \A j \in 1..stageIndex : j <= N /\ stages[j].IsComplete

C8_Monotone ==
    /\ stageIndex' >= stageIndex
    /\ stageIndex' # stageIndex =>
         /\ stageIndex' = stageIndex + 1
         /\ stages'[stageIndex + 1].IsComplete

\* C8: no Action is invoked twice; stageIndex never decreases, moves one
\* stage at a time, and only past a stage that is complete.
C8_NoRetry == [](C8_AtMostOnce) /\ [][C8_Monotone]_vars

\* Three stages have each run once and the cursor is on the last.
C8_Witness ==
    /\ N = 3
    /\ stageIndex = 2
    /\ \A i \in 1..3 : actionCalls[i] = 1

(***************************************************************************)
(* C9                                                                      *)
(***************************************************************************)
IsPending(s) == s.Error = "nil" /\ ~s.IsComplete

\* C9: in a view rendered from the current stage list, a row shows the
\* spinner phase only if its stage is pending.
C9_SpinnerOnlyIfPending ==
    (/\ ~ViewPanics(stages, stageIndex)
     /\ view = View(m, stages, stageIndex))
    => \A i \in 1..N :
         view.rows[i].working.lead # " " => IsPending(stages[i])

(***************************************************************************)
(* C10                                                                     *)
(***************************************************************************)
\* C10: in the view of a Failed run the failing stage's row shows the error
\* glyph, the rows before it the complete glyph, the rows after it the
\* pending glyph.
C10_FailedView ==
    Failed =>
        /\ Len(view.rows) = N
        /\ view.header = stages[stageIndex + 1].Name
        /\ \A i \in 1..N :
             view.rows[i].checkbox =
                 IF i = stageIndex + 1 THEN "error"
                 ELSE IF i <= stageIndex THEN "complete"
                 ELSE "pending"

\* The view of a run of three that failed at its second stage.
C10_Witness ==
    /\ Failed
    /\ N = 3
    /\ stageIndex = 1
    /\ view.rows[1].checkbox = "complete"
    /\ view.rows[2].checkbox = "error"
    /\ view.rows[3].checkbox = "pending"

(***************************************************************************)
(* C11                                                                     *)
(***************************************************************************)
\* The position of a stage name in the stage list.
NameIndex(s) == CHOOSE i \in 1..Len(StageNames) : StageNames[i] = s

\* C11: a failure log whose writes went through holds the audit log as it
\* was appended (here: the names of the logging stages, in stage order) and,
\* in its error section, the error of the stage at stageIndex, which is the
\* only stage carrying an error.
C11_LogContents ==
    (logFile.exists /\ logFile.written) =>
        /\ Failed
        /\ logFile.steps = commandLog
        /\ \A a, b \in 1..Len(logFile.steps) :
             a < b => NameIndex(logFile.steps[a]) < NameIndex(logFile.steps[b])
        /\ logFile.error = stages[stageIndex + 1].Error
        /\ logFile.error = ErrText[stageIndex + 1]
        /\ \A j \in 1..N : j # stageIndex + 1 => stages[j].Error = "nil"

\* The log of a run whose three stages all logged and whose last one failed.
C11_Witness ==
    /\ N = 3
    /\ logFile.written
    /\ logFile.steps = <<"One", "Two", "Three">>
    /\ logFile.error = "boom3"

(***************************************************************************)
(* C12                                                                     *)
(***************************************************************************)
\* C12: when the failure log could not be created or written, the failure
\* has been reported, the write was attempted once, and the run is Failed
\* with the stage's error as the model's Error.
C12_LogFailureReported ==
    (logWrites > 0 /\ ~logFile.written) =>
        /\ Len(stdout) > 0
        /\ logWrites = 1
        /\ Failed
        /\ m.Error # "nil"
        /\ m.Error = stages[stageIndex + 1].Error

(***************************************************************************)
(* C13                                                                     *)
(***************************************************************************)
\* C13 as stated: while a stage action is in flight, Update handles no
\* message.
C13_ControllerBlocked == [][InFlight > 0 => ~UpdateHandles]_vars

C13_OneAtATime ==
    InFlight > 0 =>
        /\ InFlight = 1
        /\ inAction[stageIndex + 1] = 1
        /\ pendingRun = 0
        /\ msgs.stageCompleteMsg = 0
        /\ msgs.startDeployMsg = 0
        /\ pc = "running" => (ENABLED UpdateTick /\ ENABLED UpdateKeyCtrlC)

C13_EngineWaits ==
    InFlight > 0 =>
        /\ ~UpdateStageComplete
        /\ ~UpdateStartDeploy
        /\ ~RunStage
        /\ stageIndex' = stageIndex
        /\ pendingRun' = pendingRun
        /\ actionCalls' = actionCalls
        /\ logWrites' = logWrites
        /\ commandLog' = commandLog
        /\ (stages' # stages => ActionReturn)

\* C13, amended: while a stage action is in flight, no other stage action is
\* started or waiting, Update handles no stageCompleteMsg and no
\* startDeployMsg, and stageIndex, the stage records and the logs change
\* only by the action's own return; Update does go on handling ticks and
\* keys.
C13_EngineWaitsForAction == [](C13_OneAtATime) /\ [][C13_EngineWaits]_vars

\* The second stage's action is in flight and the controller can take a tick.
C13_Witness ==
    /\ InFlight = 1
    /\ stageIndex = 1
    /\ m.spinner = 2
    /\ pc = "running"
    /\ ENABLED UpdateTick

(***************************************************************************)
(* C14                                                                     *)
(***************************************************************************)
\* Update has returned tea.Quit for the end of the run.
Terminal == Failed \/ Succeeded

C14_NothingOutstanding ==
    Terminal =>
        /\ ~(Failed /\ Succeeded)
        /\ pendingRun = 0
        /\ InFlight = 0
        /\ msgs.stageCompleteMsg = 0
        /\ msgs.startDeployMsg = 0

C14_Frozen ==
    Terminal =>
        /\ Terminal'
        /\ stages' = stages
        /\ stageIndex' = stageIndex
        /\ pendingRun' = pendingRun
        /\ inAction' = inAction
        /\ actionCalls' = actionCalls
        /\ logWrites' = logWrites
        /\ logFile' = logFile
        /\ commandLog' = commandLog
        /\ m'.Error = m.Error
        /\ quitBy' \cap {"failed", "done"} = quitBy \cap {"failed", "done"}

\* C14: once Update has quit for Succeeded or Failed, nothing is in flight
\* or outstanding and no later step starts a stage action, moves stageIndex,
\* changes a stage record or writes the failure log again.
C14_TerminalStates == [](C14_NothingOutstanding) /\ [][C14_Frozen]_vars

\* A failed run whose event loop is still taking messages.
C14_Witness ==
    /\ Failed
    /\ pc = "running"
    /\ stageIndex = 1
    /\ m.spinner = 2
    /\ ENABLED UpdateTick

(***************************************************************************)
(* C15                                                                     *)
(***************************************************************************)
\* C15: when the process has exited, every error stored on a stage record
\* is shown as that stage's error glyph in the last view or stands in the
\* failure log.
C15_NoErrorSwallowed ==
    pc = "exited" =>
        \A i \in 1..N :
            stages[i].Error # "nil" =>
                \/ /\ Len(view.rows) = N
                   /\ view.rows[i].checkbox = "error"
                \/ /\ logFile.exists
                   /\ logFile.written
                   /\ logFile.error = stages[i].Error

(***************************************************************************)
(* C17                                                                     *)
(***************************************************************************)
\* C17: over a list of N >= 1 stages, 0 <= stageIndex < N and every stage
\* below stageIndex is complete and carries no error.
C17_CursorInvariant ==
    N >= 1 =>
        /\ 0 <= stageIndex
        /\ stageIndex < N
        /\ \A j \in 1..stageIndex :
             j <= N /\ stages[j].IsComplete /\ stages[j].Error = "nil"

\* The cursor on the last of three stages, the run Succeeded.
C17_Witness ==
    /\ N = 3
    /\ stageIndex = 2
    /\ Succeeded

(***************************************************************************)
(* C18                                                                     *)
(***************************************************************************)
\* C18: no view is rendered from a stage record whose error is written and
\* whose stageCompleteMsg is not yet handled: a row shows the error glyph
\* only once the run is Failed.
C18_ViewAfterHandling ==
    \A i \in 1..Len(view.rows) :
        view.rows[i].checkbox = "error" => Failed

(***************************************************************************)
(* C19                                                                     *)
(***************************************************************************)
EngineUnchanged ==
    /\ stageIndex' = stageIndex
    /\ stages' = stages
    /\ m'.Error = m.Error
    /\ commandLog' = commandLog
    /\ quitBy' = quitBy
    /\ pc' = pc
    /\ pendingRun' = pendingRun
    /\ inAction' = inAction
    /\ actionCalls' = actionCalls
    /\ msgs' = msgs
    /\ logWrites' = logWrites
    /\ logFile' = logFile

\* C19: a step in which Update handles a spinner tick or a key other than
\* Ctrl-C changes no engine state, signals no termination and starts no
\* stage.
C19_OtherMessages == [][(UpdateTick \/ UpdateKeyOther) => EngineUnchanged]_vars

\* A tick has been handled while the second stage is current.
C19_Witness ==
    /\ pc = "running"
    /\ m.spinner = 2
    /\ stageIndex = 1
    /\ quitBy = {}
    /\ view.rows[1].working.lead = " "
    /\ view.rows[2].working.lead = "dot2"

(***************************************************************************)
(* The earlier version of the program, unnamed/part_000.  Its Stage has no *)
(* IsCompleteFunc, its model calls its error field err, it has no command  *)
(* log, and its runStage and the stageCompleteMsg case of its Update       *)
(* differ from main.go's; Init, the other cases of Update, the rendering   *)
(* and main are the same code as in main.go.                               *)
(***************************************************************************)
StageLists0(n) ==
    { s \in [1..n -> [Name : {StageNames[i] : i \in 1..n},
                      Action : {"nil"} \cup {ErrText[i] : i \in 1..n},
                      Error : {"nil"},
                      IsComplete : {FALSE}]] :
        \A i \in 1..n : /\ s[i].Name = StageNames[i]
                        /\ s[i].Action \in {"nil", ErrText[i]} }

Init0 ==
    /\ \E n \in 0..MaxStages : stages \in StageLists0(n)
    /\ stageIndex = 0
    /\ commandLog = <<>>
    /\ m = [err |-> "nil", spinner |-> 1]
    /\ msgs = [startDeployMsg |-> 0, stageCompleteMsg |-> 0]
    /\ pendingRun = 0
    /\ inAction = [i \in 1..Len(stages) |-> 0]
    /\ quitBy = {}
    /\ pc = "new"
    /\ view = NoView
    /\ logFile = NoFile
    /\ stdout = <<>>
    /\ actionCalls = [i \in 1..Len(stages) |-> 0]
    /\ logWrites = 0

\* runStage up to the call of Action: currentStage := stages[stageIndex]
\* copies the stage record, and the copy's Action is called.
RunStage0 ==
    /\ pc = "running"
    /\ pendingRun > 0
    /\ pendingRun' = pendingRun - 1
    /\ IF stageIndex >= N
       THEN /\ pc' = "panicIndex"
            /\ UNCHANGED <<inAction, actionCalls>>
       ELSE /\ inAction' = [inAction EXCEPT ![stageIndex + 1] = @ + 1]
            /\ actionCalls' = [actionCalls EXCEPT ![stageIndex + 1] = @ + 1]
            /\ UNCHANGED pc
    /\ UNCHANGED <<stages, stageIndex, commandLog, m, msgs, quitBy, view,
                   logFile, stdout, logWrites>>

\* The Action returns: its result is assigned to currentStage.Error, a field
\* of runStage's local copy, which is dropped when runStage returns
\* stageCompleteMsg; the stage list is not written.
ActionReturn0 ==
    /\ pc = "running"
    /\ \E i \in 1..N :
        /\ inAction[i] > 0
        /\ inAction' = [inAction EXCEPT ![i] = @ - 1]
    /\ msgs' = [msgs EXCEPT !.stageCompleteMsg = @ + 1]
    /\ UNCHANGED <<stages, stageIndex, commandLog, m, pendingRun, quitBy, pc,
                   view, logFile, stdout, actionCalls, logWrites>>

\* case stageCompleteMsg
UpdateStageComplete0 ==
    /\ pc = "running"
    /\ msgs.stageCompleteMsg > 0
    /\ msgs' = [msgs EXCEPT !.stageCompleteMsg = @ - 1]
    /\ stages' = [stages EXCEPT ![stageIndex + 1].IsComplete = TRUE]
    /\ IF stageIndex + 1 >= N
       THEN /\ quitBy' = quitBy \cup {"done"}
            /\ UNCHANGED <<stageIndex, pendingRun>>
       ELSE /\ stageIndex' = stageIndex + 1
            /\ pendingRun' = pendingRun + 1
            /\ UNCHANGED quitBy
    /\ Render(m, stages', stageIndex')
    /\ UNCHANGED <<commandLog, m, inAction, logFile, stdout, actionCalls,
                   logWrites>>

Next0 ==
    \/ Run
    \/ RunStage0
    \/ ActionReturn0
    \/ UpdateStageComplete0
    \/ UpdateKeyCtrlC
    \/ UpdateKeyOther
    \/ UpdateStartDeploy
    \/ UpdateTick
    \/ Exit

Spec0 == Init0 /\ [][Next0]_vars

(***************************************************************************)
(* C16                                                                     *)
(***************************************************************************)
\* C16: in part_000, once a stage's action has returned an error, the error
\* stands on that stage's record in the stage list, the stage is not marked
\* complete, stageIndex stays on it and no later stage's action is invoked.
C16_ErrorStoredAndFatal ==
    \A i \in 1..N :
        (/\ actionCalls[i] > 0
         /\ inAction[i] = 0
         /\ stages[i].Action # "nil")
        => /\ stages[i].Error # "nil"
           /\ ~stages[i].IsComplete
           /\ stageIndex = i - 1
           /\ \A j \in (i + 1)..N : actionCalls[j] = 0

(***************************************************************************)
(* C20                                                                     *)
(***************************************************************************)
\* The runtime runs every command it is handed and delivers every message
\* sent to the event loop; a stage action that was started returns.  Keys
\* and ticks may or may not come.
FairSpec ==
    /\ Spec
    /\ WF_vars(Run)
    /\ WF_vars(RunStage)
    /\ WF_vars(ActionReturn)
    /\ WF_vars(UpdateStartDeploy)
    /\ WF_vars(UpdateStageComplete)
    /\ WF_vars(Exit)

\* Every stage has a completion predicate to call.
PredicatesReturn == \A i \in 1..N : stages[i].IsCompleteFunc # "nil"

\* The stageCompleteMsg handled so far: one per stage marked complete, and
\* the one that made the run Failed.
HandledCount ==
    Cardinality({i \in 1..N : stages[i].IsComplete}) + (IF Failed THEN 1 ELSE 0)

\* Something drives the run on: a message, a command or an action.
Outstanding == msgs.startDeployMsg + msgs.stageCompleteMsg + pendingRun + InFlight

C20_NoStall ==
    /\ (pc = "running" /\ quitBy = {}) => Outstanding >= 1
    /\ HandledCount <= N
    /\ quitBy = {} => HandledCount < N \/ N = 0

\* C20: under fair delivery, a run over N >= 1 stages whose predicates and
\* actions return eventually signals termination; termination that was not
\* asked for by Ctrl-C comes with at most N stageCompleteMsg handled, and a
\* run that has not signalled termination always has a message, a command
\* or an action outstanding.
C20_Terminates ==
    /\ [](C20_NoStall)
    /\ (N >= 1 /\ PredicatesReturn) => <>(quitBy # {})

\* A run of three stages has quit after its third stageCompleteMsg.
C20_Witness ==
    /\ N = 3
    /\ Succeeded
    /\ ~Interrupted
    /\ HandledCount = 3
    /\ pc = "exited"

====
